---- MODULE Spec2Model ----
(***************************************************************************)
(* Model of the DMI pipeline of dmi-assistant: the Direction mapper        *)
(* (dmi_utils.rs), the animation synthesizer (utils.rs, animate) and the   *)
(* ParsedDMI / ParsedState / DirImage aggregate with its parse and resize  *)
(* passes (dmi_model.rs).                                                  *)
(*                                                                         *)
(* Representation:                                                         *)
(*   Option<T>         [some |-> BOOLEAN, val |-> ...]                      *)
(*   DynamicImage      [st, ix, width, height, filter]: the pixels of the  *)
(*                     image at flat index ix of raw state number st,      *)
(*                     resampled to width x height with filter ("none" for *)
(*                     the decoded image)                                  *)
(*   Vec<u8> of a GIF  <<repeat, durations in ms, frames>>                 *)
(*   f32 delay         an integer number of thousandths of a tick          *)
(*   HashMap, BTreeMap functions with the key set as domain                *)
(***************************************************************************)
EXTENDS Integers, Sequences, FiniteSets, TLC

VARIABLES raw, dmi, pc, lastReq, lastFilter, lastOp

\* the outcome of GifEncoder::set_repeat in this run: TRUE when the encoder
\* returns Err (the image crate decides; animate handles both outcomes)
VARIABLE repeat_rejected

\* the viewer screen: ViewerScreen::dmi_path, loading_dmi_in_progress,
\* display_settings.statebox_default.resize and .filter_type; the LoadDMI
\* messages queued by Task::done, the background loads not yet delivered,
\* and the number of loads started so far
VARIABLES dmi_path, loading_dmi_in_progress, statebox_resize, statebox_filter, pending_load, inflight, nLoads

\* the DMILoaded messages of the loads started so far, in the order LoadDMI
\* started them (kept for verification)
VARIABLE issued

\* exporting from the viewer: statebox_default.show_resized and .animated,
\* the CopyImage message sent by a pressed statebox button and not yet
\* handled, and the files of the cache directory by state name
VARIABLES statebox_show_resized, statebox_animated, pending_copy, cache_files

\* the explorer / extractor screen: loading_dmis, parsed_dmis, the background
\* loads not yet delivered, and the number of loads started so far
VARIABLES loading_dmis, parsed_dmis, ex_inflight, ex_nLoads

\* start-up and shutdown: Config::cache_dir and Config::log_dir, the
\* directories handed to remove_dir_all so far, and the position of the
\* process
VARIABLES cache_dir, log_dir, removed, util_pc

coreVars == <<raw, dmi, pc, lastReq, lastFilter, lastOp>>

viewerVars == <<dmi_path, loading_dmi_in_progress, statebox_resize, statebox_filter, pending_load, inflight, nLoads>>

exportVars == <<statebox_show_resized, statebox_animated, pending_copy, cache_files>>

explorerVars == <<loading_dmis, parsed_dmis, ex_inflight, ex_nLoads>>

utilVars == <<cache_dir, log_dir, removed, util_pc>>

\* what the DMI pipeline and the viewer's load handling leave alone
otherVars == <<exportVars, explorerVars, utilVars>>

vars == <<coreVars, repeat_rejected, viewerVars, issued, otherVars>>

\* ------------------------------------------------------------------ bounds
MaxDirs == 9
MaxFrames == 2
MaxExtra == 1
MaxStates == 2
MaxOrig == 2
MaxReq == 3
MaxAnimFrames == 3

\* loads started in one run of the viewer
MaxLoads == 2

\* ----------------------------------------------------------------- helpers
None == [some |-> FALSE, val |-> <<>>]
Some(v) == [some |-> TRUE, val |-> v]

Min(a, b) == IF a <= b THEN a ELSE b
Max(a, b) == IF a >= b THEN a ELSE b

\* f64/f32 round(): nearest integer, ties away from zero, of num/den >= 0
Round(num, den) == (2 * num + den) \div (2 * den)

\* Rust `x as u32` of a float that is already integral: saturating (the
\* delays of the model stay far below the upper end, 2^32 - 1)
AsU32(x) == IF x < 0 THEN 0 ELSE x

\* Rust `x as u16` of a u32: truncation to the low 16 bits
AsU16(x) == x % (2^16)

\* Vec::get / slice::get with a 0-based index
Get(seq, i) == IF i >= 0 /\ i < Len(seq) THEN Some(seq[i + 1]) ELSE None

\* -------------------------------------------------------------- Directions
Directions ==
    {"South", "North", "East", "West",
     "SouthEast", "SouthWest", "NorthEast", "NorthWest"}

\* the enum discriminant, used by `direction as usize`
Discriminant(d) ==
    CASE d = "South" -> 0
      [] d = "North" -> 1
      [] d = "East" -> 2
      [] d = "West" -> 3
      [] d = "SouthEast" -> 4
      [] d = "SouthWest" -> 5
      [] d = "NorthEast" -> 6
      [] d = "NorthWest" -> 7

\* variant: a value past the last direction gives NorthWest
Directions_from_u8_OverflowNorthWest(value) ==
    CASE value = 0 -> "South"
      [] value = 1 -> "North"
      [] value = 2 -> "East"
      [] value = 3 -> "West"
      [] value = 4 -> "SouthEast"
      [] value = 5 -> "SouthWest"
      [] value = 6 -> "NorthEast"
      [] OTHER -> "NorthWest"

\* variant: 2 and 3 give West and East
Directions_from_u8_EastWestSwapped(value) ==
    CASE value = 0 -> "South"
      [] value = 1 -> "North"
      [] value = 2 -> "West"
      [] value = 3 -> "East"
      [] value = 4 -> "SouthEast"
      [] value = 5 -> "SouthWest"
      [] value = 6 -> "NorthEast"
      [] value = 7 -> "NorthWest"
      [] OTHER -> "South"

\* impl From<u8> for Directions
Directions_from_u8(value) ==
    CASE value = 0 -> "South"
      [] value = 1 -> "North"
      [] value = 2 -> "East"
      [] value = 3 -> "West"
      [] value = 4 -> "SouthEast"
      [] value = 5 -> "SouthWest"
      [] value = 6 -> "NorthEast"
      [] value = 7 -> "NorthWest"
      [] OTHER -> "South"

\* impl From<Directions> for u8
u8_from_Directions(d) ==
    CASE d = "South" -> 0
      [] d = "North" -> 1
      [] d = "East" -> 2
      [] d = "West" -> 3
      [] d = "SouthEast" -> 4
      [] d = "SouthWest" -> 5
      [] d = "NorthEast" -> 6
      [] d = "NorthWest" -> 7

\* derive(PartialOrd, Ord) on the enum: variants compare by discriminant
Directions_cmp(a, b) ==
    IF Discriminant(a) < Discriminant(b) THEN "Less"
    ELSE IF Discriminant(a) = Discriminant(b) THEN "Equal"
    ELSE "Greater"

\* -------------------------------------------------------- StateboxResizing
Original == [kind |-> "Original", height |-> 0, width |-> 0]
Resized(h, w) == [kind |-> "Resized", height |-> h, width |-> w]

\* --------------------------------------------------------------- Looping
Indefinitely == [kind |-> "Indefinitely", num |-> 0]
NTimes(n) == [kind |-> "NTimes", num |-> n]

\* ------------------------------------------------------------ image crate
\* image::math::utils::resize_dimensions(width, height, nwidth, nheight, false)
\* as called by DynamicImage::resize: the largest size of the same aspect
\* ratio that fits in nwidth x nheight.
resize_dimensions(width, height, nwidth, nheight) ==
    IF nwidth * height <= nheight * width
    THEN <<Max(Round(width * nwidth, width), 1),
           Max(Round(height * nwidth, width), 1)>>
    ELSE <<Max(Round(width * nheight, height), 1),
           Max(Round(height * nheight, height), 1)>>

\* frame.resize(width, height, filter_type)
DynamicImage_resize(frame, nwidth, nheight, filter_type) ==
    LET dims == resize_dimensions(frame.width, frame.height, nwidth, nheight)
    IN  [frame EXCEPT !.width = dims[1], !.height = dims[2],
                      !.filter = filter_type]

\* ----------------------------------------------------------------- animate
\* The repeat setting handed to GifEncoder::set_repeat
RepeatOf(loop_flag) ==
    IF loop_flag.kind = "Indefinitely"
    THEN [kind |-> "Infinite", count |-> 0]
    ELSE [kind |-> "Finite", count |-> AsU16(loop_flag.num)]

\* variant: a missing delay entry counts as 0 ticks
FrameDelayMs_ZeroDefault(delay, i) ==
    LET entries == IF delay.some THEN delay.val ELSE <<>>
        tick == Get(entries, i)
        ticks == IF tick.some THEN tick.val ELSE 0
    IN  AsU32(Round(ticks * 100, 1000))

\* The Delay, in ms, handed to image::Frame::from_parts for frame i (0-based)
FrameDelayMs(delay, i) ==
    LET entries == IF delay.some THEN delay.val ELSE <<>>
        tick == Get(entries, i)
        ticks == IF tick.some THEN tick.val ELSE 1000
    IN  AsU32(Round(ticks * 100, 1000))

\* GifEncoder::encode_frames: a frame larger than the GIF format's 16-bit
\* dimensions is rejected.
EncodeOk(frames) ==
    \A i \in 1..Len(frames) :
        frames[i].width < 2^16 /\ frames[i].height < 2^16

\* the repeat setting of the encoder after
\* set_repeat(..).unwrap_or_else(|err| error!(..)): an Err is logged and the
\* encoder keeps its default, no repeat setting
EncoderRepeat(loop_flag) ==
    IF repeat_rejected
    THEN [kind |-> "Unset", count |-> 0]
    ELSE RepeatOf(loop_flag)

animate(frames, loop_flag, delay) ==
    IF EncodeOk(frames)
    THEN [ok |-> TRUE,
          bytes |-> <<EncoderRepeat(loop_flag),
                      [i \in 1..Len(frames) |-> FrameDelayMs(delay, i - 1)],
                      frames>>]
    ELSE [ok |-> FALSE, bytes |-> <<>>]

\* Animated::new: decoding the bytes fails when they hold no frame
Animated_new(bytes) ==
    IF Len(bytes[3]) > 0 THEN Some(bytes) ELSE None

\* animate(..).map_err(..).ok() followed by Animated::new(vec).ok()
Animate_opt(frames, loop_flag, delay) ==
    LET animated == animate(frames, loop_flag, delay)
    IN  IF animated.ok THEN Animated_new(animated.bytes) ELSE None

\* ---------------------------------------------------------------- DirImage
DirImage_default ==
    [resized_frames |-> None, original_frames |-> <<>>,
     resized_animated |-> None, original_animated |-> None]

\* variant: the image list read direction-major
FrameIndex_DirectionMajor(state, direction, frame) ==
    Discriminant(direction) * state.frames + frame

\* direction as usize + frame as usize * state.dirs as usize
FrameIndex(state, direction, frame) ==
    Discriminant(direction) + frame * state.dirs

\* the extraction loop `for frame in 0..frame_num`, from iteration `frame`
RECURSIVE ExtractFrames(_, _, _, _, _)
ExtractFrames(state, direction, frame_num, frame, original_frames) ==
    IF frame >= frame_num
    THEN original_frames
    ELSE LET got == Get(state.images, FrameIndex(state, direction, frame))
         IN  IF ~got.some
             THEN original_frames
             ELSE ExtractFrames(state, direction, frame_num, frame + 1,
                                Append(original_frames, got.val))

ResizeFrames(frames, resizing, filter_type) ==
    [i \in 1..Len(frames) |->
        DynamicImage_resize(frames[i], resizing.width, resizing.height,
                            filter_type)]

\* variant: a direction cut short by the image list is dropped whole
DirImage_parse_from_raw_DropsTruncated(state, resizing, direction, frame_num, loop_flag, filter_type) ==
    LET original_frames == ExtractFrames(state, direction, frame_num, 0, <<>>)
        animated == Animate_opt(original_frames, loop_flag, state.delay)
    IN  IF Len(original_frames) < frame_num
        THEN DirImage_default
        ELSE IF resizing.kind = "Original"
        THEN [resized_frames |-> None,
              original_frames |-> original_frames,
              resized_animated |-> None,
              original_animated |-> animated]
        ELSE LET resized_frames ==
                     ResizeFrames(original_frames, resizing, filter_type)
             IN  [resized_frames |-> Some(resized_frames),
                  original_frames |-> original_frames,
                  resized_animated |->
                      Animate_opt(resized_frames, loop_flag, state.delay),
                  original_animated |-> animated]

\* variant: no early return for a direction without frames
DirImage_parse_from_raw_NoEarlyReturn(state, resizing, direction, frame_num, loop_flag, filter_type) ==
    LET original_frames == ExtractFrames(state, direction, frame_num, 0, <<>>)
        animated == Animate_opt(original_frames, loop_flag, state.delay)
    IN  IF resizing.kind = "Original"
        THEN [resized_frames |-> None,
              original_frames |-> original_frames,
              resized_animated |-> None,
              original_animated |-> animated]
        ELSE LET resized_frames ==
                     ResizeFrames(original_frames, resizing, filter_type)
             IN  [resized_frames |-> Some(resized_frames),
                  original_frames |-> original_frames,
                  resized_animated |->
                      Animate_opt(resized_frames, loop_flag, state.delay),
                  original_animated |-> animated]

DirImage_parse_from_raw(state, resizing, direction, frame_num, loop_flag, filter_type) ==
    LET original_frames == ExtractFrames(state, direction, frame_num, 0, <<>>)
        animated == Animate_opt(original_frames, loop_flag, state.delay)
    IN  IF original_frames = <<>>
        THEN DirImage_default
        ELSE IF resizing.kind = "Original"
        THEN [resized_frames |-> None,
              original_frames |-> original_frames,
              resized_animated |-> None,
              original_animated |-> animated]
        ELSE LET resized_frames ==
                     ResizeFrames(original_frames, resizing, filter_type)
             IN  [resized_frames |-> Some(resized_frames),
                  original_frames |-> original_frames,
                  resized_animated |->
                      Animate_opt(resized_frames, loop_flag, state.delay),
                  original_animated |-> animated]

\* variant: the resized frames replace the originals
DirImage_resize_OverwritesOriginal(self, loop_flag, delay, resizing, filter_type) ==
    LET resized_frames ==
            ResizeFrames(self.original_frames, resizing, filter_type)
    IN  [self EXCEPT
            !.resized_animated = Animate_opt(resized_frames, loop_flag, delay),
            !.resized_frames = Some(resized_frames),
            !.original_frames = resized_frames]

DirImage_resize(self, loop_flag, delay, resizing, filter_type) ==
    LET resized_frames ==
            ResizeFrames(self.original_frames, resizing, filter_type)
    IN  [self EXCEPT
            !.resized_animated = Animate_opt(resized_frames, loop_flag, delay),
            !.resized_frames = Some(resized_frames)]

\* variant: the original frame whatever resized_frames holds
DirImage_get_frame_AlwaysOriginal(self, frame) ==
    Get(self.original_frames, frame)

DirImage_get_frame(self, frame) ==
    IF self.resized_frames.some
    THEN Get(self.resized_frames.val, frame)
    ELSE Get(self.original_frames, frame)

DirImage_get_original_frame(self, frame) == Get(self.original_frames, frame)

DirImage_get_animated(self) ==
    IF self.resized_animated.some
    THEN self.resized_animated
    ELSE self.original_animated

DirImage_get_original_animated(self) == self.original_animated

\* ------------------------------------------------------------- ParsedState
\* the loop `for dir_index in 0..state.dirs`, after n iterations
RECURSIVE ParseDirs(_, _, _, _)
ParseDirs(state, resizing, filter_type, n) ==
    IF n = 0
    THEN [k \in {} |-> DirImage_default]
    ELSE LET dirs == ParseDirs(state, resizing, filter_type, n - 1)
             direction == Directions_from_u8(n - 1)
             dir_image == DirImage_parse_from_raw(state, resizing, direction,
                              state.frames, state.loop_flag, filter_type)
         IN  [k \in (DOMAIN dirs) \cup {direction} |->
                 IF k = direction THEN dir_image ELSE dirs[k]]

\* variant: a state with a direction cut short keeps no direction
ParsedState_parse_from_raw_AbortsOnTruncation(state, resizing, filter_type) ==
    LET dirs == ParseDirs(state, resizing, filter_type, state.dirs)
    IN  [name |-> state.name,
         delay |-> state.delay,
         loop_flag |-> state.loop_flag,
         frames |-> state.frames,
         dirs |-> IF \E k \in DOMAIN dirs :
                         Len(dirs[k].original_frames) < state.frames
                  THEN [k \in {} |-> DirImage_default]
                  ELSE dirs]

ParsedState_parse_from_raw(state, resizing, filter_type) ==
    [name |-> state.name,
     delay |-> state.delay,
     loop_flag |-> state.loop_flag,
     frames |-> state.frames,
     dirs |-> ParseDirs(state, resizing, filter_type, state.dirs)]

\* variant: only the South direction is resized
ParsedState_resize_SouthOnly(self, resizing, filter_type) ==
    [self EXCEPT !.dirs =
        [k \in DOMAIN self.dirs |->
            IF k = "South"
            THEN DirImage_resize(self.dirs[k], self.loop_flag, self.delay,
                                 resizing, filter_type)
            ELSE self.dirs[k]]]

ParsedState_resize(self, resizing, filter_type) ==
    [self EXCEPT !.dirs =
        [k \in DOMAIN self.dirs |->
            DirImage_resize(self.dirs[k], self.loop_flag, self.delay,
                            resizing, filter_type)]]

\* self.dirs.get(dir)?.get_frame(frame)
ParsedState_get_frame(self, dir, frame) ==
    IF dir \in DOMAIN self.dirs
    THEN DirImage_get_frame(self.dirs[dir], frame)
    ELSE None

ParsedState_get_original_frame(self, dir, frame) ==
    IF dir \in DOMAIN self.dirs
    THEN DirImage_get_original_frame(self.dirs[dir], frame)
    ELSE None

ParsedState_get_animated(self, dir) ==
    IF dir \in DOMAIN self.dirs
    THEN DirImage_get_animated(self.dirs[dir])
    ELSE None

ParsedState_get_original_animated(self, dir) ==
    IF dir \in DOMAIN self.dirs
    THEN DirImage_get_original_animated(self.dirs[dir])
    ELSE None

\* --------------------------------------------------------------- ParsedDMI
ParsedDMI_default ==
    [original_height |-> 0, original_width |-> 0,
     displayed_height |-> 0, displayed_width |-> 0,
     states |-> [k \in {} |-> 0]]

\* variant: the width is not clamped when only the height grows
ParsePolicy_NoWidthClamp(original_height, original_width, resizing) ==
    IF resizing.kind = "Original"
    THEN [displayed_height |-> original_height,
          displayed_width |-> original_width,
          new_resizing |-> resizing]
    ELSE IF resizing.height > original_height
    THEN [displayed_height |-> resizing.height,
          displayed_width |-> resizing.width,
          new_resizing |-> resizing]
    ELSE IF resizing.width > original_width
    THEN [displayed_height |-> original_height,
          displayed_width |-> resizing.width,
          new_resizing |-> Resized(original_height, resizing.width)]
    ELSE [displayed_height |-> original_height,
          displayed_width |-> original_width,
          new_resizing |-> Original]

\* variant: a request that enlarges nothing is still applied to the frames
ParsePolicy_AcceptsDownscale(original_height, original_width, resizing) ==
    IF resizing.kind = "Original"
    THEN [displayed_height |-> original_height,
          displayed_width |-> original_width,
          new_resizing |-> resizing]
    ELSE IF resizing.height > original_height
            /\ resizing.width > original_width
    THEN [displayed_height |-> resizing.height,
          displayed_width |-> resizing.width,
          new_resizing |-> resizing]
    ELSE IF resizing.height > original_height
    THEN [displayed_height |-> resizing.height,
          displayed_width |-> original_width,
          new_resizing |-> Resized(resizing.height, original_width)]
    ELSE IF resizing.width > original_width
    THEN [displayed_height |-> original_height,
          displayed_width |-> resizing.width,
          new_resizing |-> Resized(original_height, resizing.width)]
    ELSE [displayed_height |-> original_height,
          displayed_width |-> original_width,
          new_resizing |-> resizing]

\* the `match resizing` of parse_from_raw
ParsePolicy(original_height, original_width, resizing) ==
    IF resizing.kind = "Original"
    THEN [displayed_height |-> original_height,
          displayed_width |-> original_width,
          new_resizing |-> resizing]
    ELSE IF resizing.height > original_height
            /\ resizing.width > original_width
    THEN [displayed_height |-> resizing.height,
          displayed_width |-> resizing.width,
          new_resizing |-> resizing]
    ELSE IF resizing.height > original_height
    THEN [displayed_height |-> resizing.height,
          displayed_width |-> original_width,
          new_resizing |-> Resized(resizing.height, original_width)]
    ELSE IF resizing.width > original_width
    THEN [displayed_height |-> original_height,
          displayed_width |-> resizing.width,
          new_resizing |-> Resized(original_height, resizing.width)]
    ELSE [displayed_height |-> original_height,
          displayed_width |-> original_width,
          new_resizing |-> Original]

\* variant: the first state of a name is kept
RECURSIVE CollectStates_FirstWins(_, _, _, _)
CollectStates_FirstWins(states, new_resizing, filter_type, n) ==
    IF n = 0
    THEN [k \in {} |-> 0]
    ELSE LET map == CollectStates_FirstWins(states, new_resizing,
                                            filter_type, n - 1)
             state == states[n]
             parsed == ParsedState_parse_from_raw(state, new_resizing,
                                                  filter_type)
         IN  [k \in (DOMAIN map) \cup {state.name} |->
                 IF k \in DOMAIN map THEN map[k] ELSE parsed]

\* raw.states.into_iter().map(..).collect() into a HashMap: first n states
RECURSIVE CollectStates(_, _, _, _)
CollectStates(states, new_resizing, filter_type, n) ==
    IF n = 0
    THEN [k \in {} |-> 0]
    ELSE LET map == CollectStates(states, new_resizing, filter_type, n - 1)
             state == states[n]
             parsed == ParsedState_parse_from_raw(state, new_resizing,
                                                  filter_type)
         IN  [k \in (DOMAIN map) \cup {state.name} |->
                 IF k = state.name THEN parsed ELSE map[k]]

ParsedDMI_parse_from_raw(icon, resizing, filter_type) ==
    LET policy == ParsePolicy(icon.height, icon.width, resizing)
    IN  [original_height |-> icon.height,
         original_width |-> icon.width,
         displayed_height |-> policy.displayed_height,
         displayed_width |-> policy.displayed_width,
         states |-> CollectStates(icon.states, policy.new_resizing,
                                  filter_type, Len(icon.states))]

\* variant: a request larger in height only keeps its displayed height but
\* is handed on as Original
ResizePolicy_ClampDropsRequest(self, resizing) ==
    IF resizing.kind = "Original"
    THEN [displayed_height |-> self.original_height,
          displayed_width |-> self.original_width,
          new_resizing |-> resizing]
    ELSE IF resizing.height > self.original_height
            /\ resizing.width > self.original_width
    THEN [displayed_height |-> resizing.height,
          displayed_width |-> resizing.width,
          new_resizing |-> resizing]
    ELSE IF resizing.height > self.original_height
    THEN [displayed_height |-> resizing.height,
          displayed_width |-> self.original_width,
          new_resizing |-> Original]
    ELSE IF resizing.width > self.original_width
    THEN [displayed_height |-> self.original_height,
          displayed_width |-> resizing.width,
          new_resizing |-> Resized(self.original_height, resizing.width)]
    ELSE [displayed_height |-> self.original_height,
          displayed_width |-> self.original_width,
          new_resizing |-> Original]

\* the first `match resizing` of resize
ResizePolicy(self, resizing) ==
    IF resizing.kind = "Original"
    THEN [displayed_height |-> self.original_height,
          displayed_width |-> self.original_width,
          new_resizing |-> resizing]
    ELSE IF resizing.height > self.original_height
            /\ resizing.width > self.original_width
    THEN [displayed_height |-> resizing.height,
          displayed_width |-> resizing.width,
          new_resizing |-> resizing]
    ELSE IF resizing.height > self.original_height
    THEN [displayed_height |-> resizing.height,
          displayed_width |-> self.original_width,
          new_resizing |-> Resized(resizing.height, self.original_width)]
    ELSE IF resizing.width > self.original_width
    THEN [displayed_height |-> self.original_height,
          displayed_width |-> resizing.width,
          new_resizing |-> Resized(self.original_height, resizing.width)]
    ELSE [displayed_height |-> self.original_height,
          displayed_width |-> self.original_width,
          new_resizing |-> Original]

\* the second `match new_resizing` of resize
ResizeStates(states, new_resizing, filter_type) ==
    IF new_resizing.kind = "Original"
    THEN states
    ELSE [k \in DOMAIN states |->
             ParsedState_resize(states[k], new_resizing, filter_type)]

ParsedDMI_resize(self, resizing, filter_type) ==
    LET policy == ResizePolicy(self, resizing)
    IN  [self EXCEPT
            !.displayed_height = policy.displayed_height,
            !.displayed_width = policy.displayed_width,
            !.states = ResizeStates(self.states, policy.new_resizing,
                                    filter_type)]

\* ------------------------------------------------------------------ inputs
\* a decoded image of raw state number st at flat index ix
RawImage(st, ix, width, height) ==
    [st |-> st, ix |-> ix, width |-> width, height |-> height,
     filter |-> "none"]

\* dmi::icon::IconState (rewind and movement are passed through unread)
RawState(st, name, dirs, frames, len, delay, loop_flag, width, height) ==
    [name |-> name, dirs |-> dirs, frames |-> frames, delay |-> delay,
     loop_flag |-> loop_flag,
     images |-> [i \in 1..len |-> RawImage(st, i - 1, width, height)]]

\* dmi::icon::Icon
RawIcon(height, width, states) ==
    [height |-> height, width |-> width, states |-> states]

Names == {"a", "b"}

\* every shape (dirs, frames, images) of one state, in a 1x1 icon
ShapeIcons ==
    UNION { UNION { { RawIcon(1, 1, <<RawState(1, "a", D, F, L, None,
                                               Indefinitely, 1, 1)>>) :
                      L \in 0..(D * F + MaxExtra) } :
                    F \in 0..MaxFrames } :
            D \in 0..MaxDirs }

\* several states, complete, truncated or empty, with or without a name clash
SampleShapes == {<<4, 2, 6>>, <<4, 2, 8>>, <<1, 1, 0>>}

MultiIcons ==
    UNION { { RawIcon(1, 1,
                [k \in 1..n |->
                    RawState(k, c[k][1], c[k][2][1], c[k][2][2], c[k][2][3],
                             None, Indefinitely, 1, 1)]) :
              c \in [1..n -> Names \X SampleShapes] } :
            n \in 2..MaxStates }

\* delays in thousandths of a tick: absent, empty, [2.0, 0.5],
\* [0.125, 1.0, 1.0], [0.0]
DelayOptions ==
    {None, Some(<<>>), Some(<<2000, 500>>), Some(<<125, 1000, 1000>>),
     Some(<<0>>)}

LoopOptions ==
    {Indefinitely, NTimes(1), NTimes(3), NTimes(65535), NTimes(65536),
     NTimes(65537)}

\* one direction, every delay and loop mode
AnimIcons ==
    { RawIcon(1, 1, <<RawState(1, "a", 1, F, F, delay, loop_flag, 1, 1)>>) :
      F \in 0..MaxAnimFrames, delay \in DelayOptions,
      loop_flag \in LoopOptions }

\* every original size, with: one state with frames, delays and a finite
\* loop; a state with directions that have no frame beside a second state;
\* a state with directions cut short
SizedIcons ==
    UNION { { RawIcon(h, w, <<RawState(1, "a", 1, 2, 2, Some(<<2000, 500>>),
                                       NTimes(3), w, h)>>),
              RawIcon(h, w, <<RawState(1, "a", 4, 1, 2, None,
                                       Indefinitely, w, h),
                              RawState(2, "b", 1, 1, 1, None,
                                       Indefinitely, w, h)>>),
              RawIcon(h, w, <<RawState(1, "a", 4, 2, 6, None,
                                       Indefinitely, w, h)>>) } :
            <<h, w>> \in (1..MaxOrig) \X (1..MaxOrig) }

\* the icons whose parsing is explored: every shape, delay and loop mode
ParseIcons == ShapeIcons \cup MultiIcons \cup AnimIcons

Requests ==
    {Original} \cup { Resized(h, w) : h \in 1..MaxReq, w \in 1..MaxReq }

\* two of the five FilterType values
Filters == {"Nearest", "Triangle"}

\* ----------------------------------------------------------- state machine
DEFAULT_HEIGHT_RESIZE == 64

DEFAULT_WIDTH_RESIZE == 64

\* StateboxResizing::default()
StateboxResizing_default ==
    Resized(DEFAULT_HEIGHT_RESIZE, DEFAULT_WIDTH_RESIZE)

\* ViewerScreen::default(): empty path, not loading, default statebox
\* settings, nothing queued or running
ViewerStart ==
    /\ dmi_path = ""
    /\ loading_dmi_in_progress = FALSE
    /\ statebox_resize = StateboxResizing_default
    /\ statebox_filter = "Nearest"
    /\ pending_load = 0
    /\ inflight = {}
    /\ nLoads = 0

\* no export asked for, an empty cache directory
ExportStart ==
    /\ statebox_show_resized = TRUE
    /\ statebox_animated = TRUE
    /\ pending_copy = None
    /\ cache_files = [name \in Names |-> None]

\* ExplorerScreen::default() / ExtractorScreen::default()
ExplorerStart ==
    /\ loading_dmis = {}
    /\ parsed_dmis = [path \in {} |-> <<>>]
    /\ ex_inflight = {}
    /\ ex_nLoads = 0

\* a running process with the directories "/var/cache" and "/var/log"
UtilStart ==
    /\ cache_dir = <<"/", "v", "a", "r", "/", "c", "a", "c", "h", "e">>
    /\ log_dir = <<"/", "v", "a", "r", "/", "l", "o", "g">>
    /\ removed = <<>>
    /\ util_pc = "running"

OtherStart ==
    /\ issued = <<>>
    /\ ExportStart
    /\ ExplorerStart
    /\ UtilStart

CoreStart ==
    /\ dmi = ParsedDMI_default
    /\ pc = "init"
    /\ lastOp = "none"
    /\ lastReq = Original
    /\ lastFilter = "Nearest"

Start ==
    /\ CoreStart
    /\ repeat_rejected = FALSE
    /\ ViewerStart
    /\ OtherStart

Init == raw \in SizedIcons /\ Start

InitParse == raw \in ParseIcons /\ Start

\* ParsedDMI::parse_from_raw(raw, resizing, filter_type)
ParseFromRaw(resizing, filter_type) ==
    /\ pc = "init"
    /\ dmi' = ParsedDMI_parse_from_raw(raw, resizing, filter_type)
    /\ pc' = "parsed"
    /\ lastOp' = "parse"
    /\ lastReq' = resizing
    /\ lastFilter' = filter_type
    /\ UNCHANGED <<raw, repeat_rejected, viewerVars, issued, otherVars>>

\* parsed_dmi.resize(resizing, filter_type)
Resize(resizing, filter_type) ==
    /\ pc = "parsed"
    /\ dmi' = ParsedDMI_resize(dmi, resizing, filter_type)
    /\ lastOp' = "resize"
    /\ lastReq' = resizing
    /\ lastFilter' = filter_type
    /\ UNCHANGED <<raw, pc, repeat_rejected, viewerVars, issued, otherVars>>

Next ==
    \/ \E resizing \in Requests, filter_type \in Filters :
           ParseFromRaw(resizing, filter_type)
    \/ \E resizing \in Requests, filter_type \in Filters :
           Resize(resizing, filter_type)

\* parse, then any sequence of resizes
Spec == Init /\ [][Next]_vars

NextParse ==
    \E resizing \in Requests, filter_type \in Filters :
        ParseFromRaw(resizing, filter_type)

\* parse_from_raw as a function of its inputs
SpecParse == InitParse /\ [][NextParse]_vars

\* either outcome of GifEncoder::set_repeat
InitEncoder ==
    /\ raw \in SizedIcons
    /\ CoreStart
    /\ repeat_rejected \in BOOLEAN
    /\ ViewerStart
    /\ OtherStart

\* parse, then any sequence of resizes, with an encoder that accepts or
\* rejects the repeat setting
SpecEncoder == InitEncoder /\ [][Next]_vars

\* ------------------------------------------------------------------ viewer
\* dmi::icon::Icon::default(), the dmi_raw_icon of a new screen: no state
Icon_default == RawIcon(0, 0, <<>>)

\* the files of the run: two well-formed DMI files, a PNG without the DMI
\* metadata, and a path that does not exist
ViewerPaths == {"a.dmi", "b.dmi", "plain.png", "missing.dmi"}

\* load_dmi: Ok(Icon::load(File::open(input_file)?)?), either `?` returning
\* the error as the Err of the Result
load_dmi(input_file) ==
    CASE input_file = "a.dmi" ->
             [ok |-> TRUE, err |-> "",
              icon |-> RawIcon(1, 1, <<RawState(1, "a", 1, 1, 1, None,
                                                Indefinitely, 1, 1)>>)]
      [] input_file = "b.dmi" ->
             [ok |-> TRUE, err |-> "",
              icon |-> RawIcon(2, 2, <<RawState(1, "b", 1, 2, 2,
                                                Some(<<2000, 500>>),
                                                NTimes(3), 2, 2)>>)]
      [] input_file = "wide.dmi" ->
             [ok |-> TRUE, err |-> "",
              icon |-> RawIcon(1, 2, <<RawState(1, "a", 1, 2, 2, None,
                                                Indefinitely, 2, 1)>>)]
      [] input_file = "plain.png" ->
             [ok |-> FALSE, err |-> "DmiError", icon |-> Icon_default]
      [] OTHER ->
             [ok |-> FALSE, err |-> "IoError", icon |-> Icon_default]

\* the future started by LoadDMI, as the DMILoaded message it resolves to
LoadTask(id, path, resize, filter_type) ==
    LET opened_dmi == load_dmi(path)
    IN  IF ~opened_dmi.ok
        THEN [id |-> id, path |-> path, ok |-> FALSE, err |-> opened_dmi.err,
              raw |-> Icon_default, parsed |-> ParsedDMI_default]
        ELSE [id |-> id, path |-> path, ok |-> TRUE, err |-> "",
              raw |-> opened_dmi.icon,
              parsed |-> ParsedDMI_parse_from_raw(opened_dmi.icon, resize,
                                                  filter_type)]

\* the resize settings chosen in the run
ViewerResizes == {Original, StateboxResizing_default}

InitViewer ==
    /\ raw = Icon_default
    /\ dmi = ParsedDMI_default
    /\ pc = "viewer"
    /\ lastOp = "none"
    /\ lastReq = Original
    /\ lastFilter = "Nearest"
    /\ repeat_rejected = FALSE
    /\ ViewerStart
    /\ OtherStart

\* ViewerScreen::view returns the "Loading ..." placeholder while
\* loading_dmi_in_progress is set: the path input, the statebox settings
\* and the stateboxes are built, and can send their messages, only when it
\* is not set
ViewShowsControls == ~loading_dmi_in_progress

\* ViewerMessage::ChangeDMIPath(path), sent by the path input
ChangeDMIPath(path) ==
    /\ pc = "viewer"
    /\ ViewShowsControls
    /\ dmi_path' = path
    /\ UNCHANGED <<raw, dmi, pc, lastOp, lastReq, lastFilter, repeat_rejected, loading_dmi_in_progress, statebox_resize, statebox_filter, pending_load, inflight, nLoads, issued, otherVars>>

\* window::Event::FileDropped(path): Task::done(LoadDMI) queues a LoadDMI
FileDropped(path) ==
    /\ pc = "viewer"
    /\ nLoads + pending_load < MaxLoads
    /\ dmi_path' = path
    /\ pending_load' = pending_load + 1
    /\ UNCHANGED <<raw, dmi, pc, lastOp, lastReq, lastFilter, repeat_rejected, loading_dmi_in_progress, statebox_resize, statebox_filter, inflight, nLoads, issued, otherVars>>

\* ViewerMessage::LoadDMI, queued by a file drop or sent by the path input
LoadDMI(queued) ==
    /\ pc = "viewer"
    /\ IF queued
       THEN pending_load > 0 /\ pending_load' = pending_load - 1
       ELSE /\ ViewShowsControls
            /\ nLoads + pending_load < MaxLoads
            /\ pending_load' = pending_load
    /\ loading_dmi_in_progress' = TRUE
    /\ inflight' = inflight \cup {LoadTask(nLoads + 1, dmi_path, statebox_resize, statebox_filter)}
    /\ issued' = Append(issued, LoadTask(nLoads + 1, dmi_path, statebox_resize, statebox_filter))
    /\ nLoads' = nLoads + 1
    /\ lastOp' = "LoadDMI"
    /\ UNCHANGED <<raw, dmi, pc, lastReq, lastFilter, repeat_rejected, dmi_path, statebox_resize, statebox_filter, otherVars>>

\* variant: a failed load resets the screen to the empty aggregate
DMILoaded_ErrResets(task) ==
    /\ pc = "viewer"
    /\ task \in inflight
    /\ inflight' = inflight \ {task}
    /\ loading_dmi_in_progress' = FALSE
    /\ IF ~task.ok
       THEN /\ lastOp' = "DMILoaded(Err)"
            /\ raw' = Icon_default
            /\ dmi' = ParsedDMI_default
       ELSE /\ raw' = task.raw
            /\ dmi' = task.parsed
            /\ lastOp' = "DMILoaded(Ok)"
    /\ UNCHANGED <<pc, lastReq, lastFilter, repeat_rejected, dmi_path, statebox_resize, statebox_filter, pending_load, nLoads, issued, otherVars>>

\* ViewerMessage::DMILoaded(result), the result of one background load
DMILoaded(task) ==
    /\ pc = "viewer"
    /\ task \in inflight
    /\ inflight' = inflight \ {task}
    /\ loading_dmi_in_progress' = FALSE
    /\ IF ~task.ok
       THEN /\ lastOp' = "DMILoaded(Err)"
            /\ UNCHANGED <<raw, dmi>>
       ELSE /\ raw' = task.raw
            /\ dmi' = task.parsed
            /\ lastOp' = "DMILoaded(Ok)"
    /\ UNCHANGED <<pc, lastReq, lastFilter, repeat_rejected, dmi_path, statebox_resize, statebox_filter, pending_load, nLoads, issued, otherVars>>

\* ViewerMessage::ChangeResize(resizing)
ChangeResize(resizing) ==
    /\ pc = "viewer"
    /\ ViewShowsControls
    /\ statebox_resize' = resizing
    /\ UNCHANGED <<raw, dmi, pc, lastOp, lastReq, lastFilter, repeat_rejected, dmi_path, loading_dmi_in_progress, statebox_filter, pending_load, inflight, nLoads, issued, otherVars>>

\* ViewerMessage::ChangeFilterType(filter_type)
ChangeFilterType(filter_type) ==
    /\ pc = "viewer"
    /\ ViewShowsControls
    /\ statebox_filter' = filter_type
    /\ UNCHANGED <<raw, dmi, pc, lastOp, lastReq, lastFilter, repeat_rejected, dmi_path, loading_dmi_in_progress, statebox_resize, pending_load, inflight, nLoads, issued, otherVars>>

\* ViewerMessage::PerformResize, sent by the Resize button of the settings:
\* the handler resizes parsed_dmi in place and checks nothing
PerformResize ==
    /\ pc = "viewer"
    /\ ViewShowsControls
    /\ dmi' = ParsedDMI_resize(dmi, statebox_resize, statebox_filter)
    /\ lastOp' = "PerformResize"
    /\ lastReq' = statebox_resize
    /\ lastFilter' = statebox_filter
    /\ UNCHANGED <<raw, pc, repeat_rejected, viewerVars, issued, otherVars>>

NextViewer ==
    \/ \E path \in ViewerPaths : ChangeDMIPath(path)
    \/ \E path \in ViewerPaths : FileDropped(path)
    \/ \E queued \in BOOLEAN : LoadDMI(queued)
    \/ \E task \in inflight : DMILoaded(task)
    \/ \E resizing \in ViewerResizes : ChangeResize(resizing)
    \/ \E filter_type \in Filters : ChangeFilterType(filter_type)
    \/ PerformResize

\* the messages of the viewer screen, in any order
SpecViewer == InitViewer /\ [][NextViewer]_vars

\* ------------------------------------------------------------------ export
\* The bytes CopyImage writes: animated.bytes.clone() for an animation, the
\* buffer image.write_to(&mut buf, ImageFormat::Gif) filled for a frame (its
\* Result is dropped: a frame the GIF format rejects leaves the buffer empty)
NoImage == RawImage(0, 0, 0, 0)

AnimatedBytes(bytes) == [kind |-> "animation", gif |-> bytes, image |-> NoImage]

FrameBytes(image) ==
    IF EncodeOk(<<image>>)
    THEN [kind |-> "frame", gif |-> <<>>, image |-> image]
    ELSE [kind |-> "nothing", gif |-> <<>>, image |-> NoImage]

\* Option::map of the two conversions
SomeAnimated(opt) == IF opt.some THEN Some(AnimatedBytes(opt.val)) ELSE None

SomeFrame(opt) == IF opt.some THEN Some(FrameBytes(opt.val)) ELSE None

\* a file of the cache directory: all of data written, a strict prefix of
\* it, or nothing (created or truncated and not written)
WholeFile(data) == [written |-> "all", data |-> data]

PartialFile(data) == [written |-> "part", data |-> data]

EmptyFile ==
    [written |-> "none",
     data |-> [kind |-> "nothing", gif |-> <<>>, image |-> NoImage]]

\* the buttons display_statebox builds for one direction of one state: the
\* image each shows and the CopyImage message its on_press sends, whose
\* third argument is settings.show_resized
DirectionButtons(state, direction, show_resized, animated) ==
    IF animated
    THEN LET gif == IF show_resized
                    THEN ParsedState_get_animated(state, direction)
                    ELSE ParsedState_get_original_animated(state, direction)
         IN  IF gif.some
             THEN {[state_name |-> state.name, animated |-> TRUE,
                    original |-> show_resized, direction |-> direction,
                    frame |-> None, shown |-> AnimatedBytes(gif.val)]}
             ELSE {}
    ELSE UNION { LET icon == IF show_resized
                             THEN ParsedState_get_frame(state, direction,
                                                        frame)
                             ELSE ParsedState_get_original_frame(
                                      state, direction, frame)
                 IN  IF icon.some
                     THEN {[state_name |-> state.name, animated |-> FALSE,
                            original |-> show_resized,
                            direction |-> direction, frame |-> Some(frame),
                            shown |-> FrameBytes(icon.val)]}
                     ELSE {} :
                 frame \in 0..(state.frames - 1) }

\* every statebox button of the view
StateboxButtons(d, show_resized, animated) ==
    UNION { UNION { DirectionButtons(d.states[name], direction,
                                     show_resized, animated) :
                    direction \in DOMAIN d.states[name].dirs } :
            name \in DOMAIN d.states }

\* the `match (animated, original)` of CopyImage
CopyImage_gif_data(state, msg) ==
    IF msg.animated /\ msg.original
    THEN SomeAnimated(ParsedState_get_original_animated(state, msg.direction))
    ELSE IF msg.animated
    THEN SomeAnimated(ParsedState_get_animated(state, msg.direction))
    ELSE IF msg.original
    THEN SomeFrame(ParsedState_get_original_frame(state, msg.direction, msg.frame.val))
    ELSE SomeFrame(ParsedState_get_frame(state, msg.direction, msg.frame.val))

\* the files exported from
ExportPaths == {"a.dmi", "wide.dmi"}

\* ViewerMessage::ToggleAnimated(active)
ToggleAnimated(active) ==
    /\ pc = "viewer"
    /\ ViewShowsControls
    /\ statebox_animated' = active
    /\ UNCHANGED <<coreVars, repeat_rejected, viewerVars, issued, statebox_show_resized, pending_copy, cache_files, explorerVars, utilVars>>

\* ViewerMessage::ToggleResizeDisplay(active)
ToggleResizeDisplay(active) ==
    /\ pc = "viewer"
    /\ ViewShowsControls
    /\ statebox_show_resized' = active
    /\ UNCHANGED <<coreVars, repeat_rejected, viewerVars, issued, statebox_animated, pending_copy, cache_files, explorerVars, utilVars>>

\* a statebox button is pressed: its CopyImage message is on its way to
\* update
ClickStatebox(button) ==
    /\ pc = "viewer"
    /\ ViewShowsControls
    /\ pending_copy = None
    /\ button \in StateboxButtons(dmi, statebox_show_resized, statebox_animated)
    /\ pending_copy' = Some(button)
    /\ UNCHANGED <<coreVars, repeat_rejected, viewerVars, issued, statebox_show_resized, statebox_animated, cache_files, explorerVars, utilVars>>

\* ViewerMessage::CopyImage(state_name, animated, original, direction,
\* frame); open_ok and write_ok are the outcomes of OpenOptions::open and of
\* write_all
CopyImage(open_ok, write_ok) ==
    /\ pc = "viewer"
    /\ pending_copy.some
    /\ pending_copy' = None
    /\ LET msg == pending_copy.val
           name == msg.state_name
       IN  IF (~msg.animated /\ ~msg.frame.some)
              \/ name \notin DOMAIN dmi.states
              \/ ~open_ok
           THEN /\ lastOp' = "CopyImage(Failed)"
                /\ UNCHANGED cache_files
           ELSE LET gif_data == CopyImage_gif_data(dmi.states[name], msg)
                IN  IF ~gif_data.some
                    THEN /\ lastOp' = "CopyImage(Failed)"
                         /\ cache_files' = [cache_files EXCEPT ![name] = Some(EmptyFile)]
                    ELSE IF ~write_ok
                    THEN /\ lastOp' = "CopyImage(Failed)"
                         /\ cache_files' = [cache_files EXCEPT ![name] = Some(PartialFile(gif_data.val))]
                    ELSE /\ lastOp' = "CopyImage(Ok)"
                         /\ cache_files' = [cache_files EXCEPT ![name] = Some(WholeFile(gif_data.val))]
    /\ UNCHANGED <<raw, dmi, pc, lastReq, lastFilter, repeat_rejected, viewerVars, issued, statebox_show_resized, statebox_animated, explorerVars, utilVars>>

\* the messages of loading and exporting; while a CopyImage message is on
\* its way only the result of a running load can be handled before it
NextExport ==
    \/ \E path \in ExportPaths : pending_copy = None /\ ChangeDMIPath(path)
    \/ \E path \in ExportPaths : pending_copy = None /\ FileDropped(path)
    \/ \E queued \in BOOLEAN : pending_copy = None /\ LoadDMI(queued)
    \/ \E active \in BOOLEAN : pending_copy = None /\ ToggleAnimated(active)
    \/ \E active \in BOOLEAN : pending_copy = None /\ ToggleResizeDisplay(active)
    \/ \E button \in StateboxButtons(dmi, statebox_show_resized, statebox_animated) : ClickStatebox(button)
    \/ \E task \in inflight : DMILoaded(task)
    \/ \E open_ok \in BOOLEAN, write_ok \in BOOLEAN : CopyImage(open_ok, write_ok)

SpecExport == InitViewer /\ [][NextExport]_vars

\* ---------------------------------------------------------------- explorer
\* ExplorerScreen::update; ExtractorScreen::update handles LoadDMI,
\* DMILoaded, RemoveDMI and ClearAll with the same code
ExplorerPaths == {"a.dmi", "b.dmi", "plain.png"}

\* the names of the states of a loaded icon, in file order
ExistingStates(icon) == [i \in 1..Len(icon.states) |-> icon.states[i].name]

\* the future LoadDMI spawns and the DMILoaded((path, loaded)) message it
\* ends with; cleared records that ClearAll ran while it was pending
ExplorerTask(id, path) ==
    LET opened_dmi == load_dmi(path)
    IN  IF ~opened_dmi.ok
        THEN [id |-> id, path |-> path, ok |-> FALSE, states |-> <<>>,
              cleared |-> FALSE]
        ELSE [id |-> id, path |-> path, ok |-> TRUE,
              states |-> ExistingStates(opened_dmi.icon), cleared |-> FALSE]

\* BTreeMap::insert and BTreeMap::remove
BTreeMap_insert(map, key, value) ==
    [k \in (DOMAIN map) \cup {key} |-> IF k = key THEN value ELSE map[k]]

BTreeMap_remove(map, key) == [k \in (DOMAIN map) \ {key} |-> map[k]]

InitExplorer ==
    /\ raw = RawIcon(0, 0, <<>>)
    /\ dmi = ParsedDMI_default
    /\ pc = "explorer"
    /\ lastReq = Original
    /\ lastFilter = "Nearest"
    /\ lastOp = "none"
    /\ repeat_rejected = FALSE
    /\ ViewerStart
    /\ OtherStart

\* ExplorerMessage::LoadDMI(path), sent by the path input, the file dialog
\* and a dropped directory without a look at loading_dmis
ExplorerLoadDMI(path) ==
    /\ pc = "explorer"
    /\ ex_nLoads < MaxLoads
    /\ loading_dmis' = loading_dmis \cup {path}
    /\ ex_inflight' = ex_inflight \cup {ExplorerTask(ex_nLoads + 1, path)}
    /\ ex_nLoads' = ex_nLoads + 1
    /\ lastOp' = "LoadDMI"
    /\ UNCHANGED <<raw, dmi, pc, lastReq, lastFilter, repeat_rejected, viewerVars, issued, exportVars, parsed_dmis, utilVars>>

\* a DMILoaded whose Err arm leaves the path in loading_dmis
ExplorerDMILoaded_ErrKeepsLoading(task) ==
    /\ pc = "explorer"
    /\ task \in ex_inflight
    /\ ex_inflight' = ex_inflight \ {task}
    /\ IF ~task.ok
       THEN /\ lastOp' = "DMILoaded(Err)"
            /\ UNCHANGED <<loading_dmis, parsed_dmis>>
       ELSE /\ lastOp' = "DMILoaded(Ok)"
            /\ loading_dmis' = loading_dmis \ {task.path}
            /\ parsed_dmis' = IF task.path \in loading_dmis
                              THEN BTreeMap_insert(parsed_dmis, task.path, task.states)
                              ELSE parsed_dmis
    /\ UNCHANGED <<raw, dmi, pc, lastReq, lastFilter, repeat_rejected, viewerVars, issued, exportVars, ex_nLoads, utilVars>>

\* ExplorerMessage::DMILoaded((path, loaded))
ExplorerDMILoaded(task) ==
    /\ pc = "explorer"
    /\ task \in ex_inflight
    /\ ex_inflight' = ex_inflight \ {task}
    /\ loading_dmis' = loading_dmis \ {task.path}
    /\ IF ~task.ok
       THEN /\ lastOp' = "DMILoaded(Err)"
            /\ UNCHANGED parsed_dmis
       ELSE /\ lastOp' = "DMILoaded(Ok)"
            /\ parsed_dmis' = IF task.path \in loading_dmis
                              THEN BTreeMap_insert(parsed_dmis, task.path, task.states)
                              ELSE parsed_dmis
    /\ UNCHANGED <<raw, dmi, pc, lastReq, lastFilter, repeat_rejected, viewerVars, issued, exportVars, ex_nLoads, utilVars>>

\* ExplorerMessage::RemoveDMI(path), sent by the button of a listed file
ExplorerRemoveDMI(path) ==
    /\ pc = "explorer"
    /\ path \in DOMAIN parsed_dmis
    /\ parsed_dmis' = BTreeMap_remove(parsed_dmis, path)
    /\ lastOp' = "RemoveDMI"
    /\ UNCHANGED <<raw, dmi, pc, lastReq, lastFilter, repeat_rejected, viewerVars, issued, exportVars, loading_dmis, ex_inflight, ex_nLoads, utilVars>>

\* ExplorerMessage::ClearAll
ExplorerClearAll ==
    /\ pc = "explorer"
    /\ parsed_dmis' = [path \in {} |-> <<>>]
    /\ loading_dmis' = {}
    /\ ex_inflight' = { [task EXCEPT !.cleared = TRUE] : task \in ex_inflight }
    /\ lastOp' = "ClearAll"
    /\ UNCHANGED <<raw, dmi, pc, lastReq, lastFilter, repeat_rejected, viewerVars, issued, exportVars, ex_nLoads, utilVars>>

NextExplorer ==
    \/ \E path \in ExplorerPaths : ExplorerLoadDMI(path)
    \/ \E task \in ex_inflight : ExplorerDMILoaded(task)
    \/ \E path \in ExplorerPaths : ExplorerRemoveDMI(path)
    \/ ExplorerClearAll

SpecExplorer == InitExplorer /\ [][NextExplorer]_vars

\* every spawned future runs to its end and its message is handled
SpecExplorerLive ==
    /\ SpecExplorer
    /\ WF_vars(\E task \in ex_inflight : ExplorerDMILoaded(task))

\* ------------------------------------------------------------- directories
\* A path is the sequence of its characters. Path::components: the root
\* when the path starts with "/", then the names between the separators;
\* empty names and "." are dropped
RECURSIVE SplitPath(_)
SplitPath(path) ==
    IF path = <<>>
    THEN << <<>> >>
    ELSE LET rest == SplitPath(Tail(path))
         IN  IF Head(path) = "/"
             THEN << <<>> >> \o rest
             ELSE << <<Head(path)>> \o Head(rest) >> \o Tail(rest)

IsPathName(name) == name # <<>> /\ name # <<".">>

Path_components(path) ==
    (IF path # <<>> /\ Head(path) = "/" THEN << <<"/">> >> ELSE <<>>)
        \o SelectSeq(SplitPath(path), IsPathName)

\* Path::ends_with: the components of child are the last components of path
Path_ends_with(path, child) ==
    LET whole == Path_components(path)
        tail == Path_components(child)
    IN  /\ Len(tail) <= Len(whole)
        /\ SubSeq(whole, Len(whole) - Len(tail) + 1, Len(whole)) = tail

HomeDir == <<"/", "h", "o", "m", "e">>

\* the directories a Config.toml may name: "", "/", "/tmp", "/home",
\* "/home/", "/mnt/home", "home", "/var/cache", "/var/log"
DirInputs ==
    { <<>>,
      <<"/">>,
      <<"/", "t", "m", "p">>,
      HomeDir,
      HomeDir \o <<"/">>,
      <<"/", "m", "n", "t">> \o HomeDir,
      <<"h", "o", "m", "e">>,
      <<"/", "v", "a", "r", "/", "c", "a", "c", "h", "e">>,
      <<"/", "v", "a", "r", "/", "l", "o", "g">> }

\* main() after Config::load()
InitDirs ==
    /\ raw = Icon_default
    /\ CoreStart
    /\ repeat_rejected = FALSE
    /\ ViewerStart
    /\ issued = <<>>
    /\ ExportStart
    /\ ExplorerStart
    /\ cache_dir \in DirInputs
    /\ log_dir \in DirInputs
    /\ removed = <<>>
    /\ util_pc = "start"

\* utils::prepare_dirs; removed lists the arguments of fs::remove_dir_all
prepare_dirs ==
    /\ util_pc = "start"
    /\ IF Path_ends_with(cache_dir, HomeDir) \/ Len(log_dir) < 5
       THEN /\ util_pc' = "panicked"
            /\ UNCHANGED removed
       ELSE IF Path_ends_with(log_dir, HomeDir) \/ Len(log_dir) < 5
       THEN /\ util_pc' = "panicked"
            /\ UNCHANGED removed
       ELSE /\ removed' = Append(removed, cache_dir)
            /\ util_pc' = "running"
    /\ UNCHANGED <<coreVars, repeat_rejected, viewerVars, issued, exportVars, explorerVars, cache_dir, log_dir>>

\* utils::cleanup, called when the window is closed
cleanup ==
    /\ util_pc = "running"
    /\ IF Path_ends_with(cache_dir, HomeDir) \/ cache_dir = <<"/">> \/ cache_dir = <<>>
       THEN /\ util_pc' = "panicked"
            /\ UNCHANGED removed
       ELSE /\ removed' = Append(removed, cache_dir)
            /\ util_pc' = "closed"
    /\ UNCHANGED <<coreVars, repeat_rejected, viewerVars, issued, exportVars, explorerVars, cache_dir, log_dir>>

NextDirs == prepare_dirs \/ cleanup

SpecDirs == InitDirs /\ [][NextDirs]_vars

\* ------------------------------------------------------------ verification
\* the raw state a parsed state was built from: the last one of its name
SourceOf(name) ==
    raw.states[CHOOSE i \in 1..Len(raw.states) :
                   /\ raw.states[i].name = name
                   /\ \A j \in (i + 1)..Len(raw.states) :
                          raw.states[j].name # name]

\* every (state name, direction) entry of an aggregate
Entries(d) ==
    { <<name, dir>> \in (DOMAIN d.states) \X Directions :
          dir \in DOMAIN d.states[name].dirs }

DirImageOf(d, e) == d.states[e[1]].dirs[e[2]]

\* the original data of an aggregate
OriginalData(d) ==
    [original_height |-> d.original_height,
     original_width |-> d.original_width,
     dirs |-> [e \in Entries(d) |->
                  <<DirImageOf(d, e).original_frames,
                    DirImageOf(d, e).original_animated>>]]

NoResizedBuffers(d) ==
    \A e \in Entries(d) :
        /\ DirImageOf(d, e).resized_frames = None
        /\ DirImageOf(d, e).resized_animated = None

\* the request cannot enlarge the icon in either dimension
Downscale(d, resizing) ==
    \/ resizing.kind = "Original"
    \/ /\ resizing.height <= d.original_height
       /\ resizing.width <= d.original_width

\* C1: ParsedDMI::resize never changes original data: across every resize
\* step original_height, original_width and every DirImage's original_frames
\* and original_animated keep their values, and get_original_frame returns
\* the same frame for every state, direction and index.
C1_ResizeKeepsOriginals ==
    [][lastOp' = "resize" =>
          /\ OriginalData(dmi') = OriginalData(dmi)
          /\ \A e \in Entries(dmi) : \A i \in 0..(MaxFrames + MaxAnimFrames) :
                 DirImage_get_original_frame(DirImageOf(dmi', e), i)
                     = DirImage_get_original_frame(DirImageOf(dmi, e), i)]_vars

\* a resize that produced resized buffers beside non-empty originals, after
\* an earlier resize
C1_Witness ==
    /\ lastOp = "resize"
    /\ \E e \in Entries(dmi) :
           /\ DirImageOf(dmi, e).original_frames # <<>>
           /\ DirImageOf(dmi, e).resized_frames.some
           /\ DirImageOf(dmi, e).resized_frames.val
                  # DirImageOf(dmi, e).original_frames

\* C2 (as claimed): after a resize whose effective request is Original,
\* every DirImage has resized_frames = None and resized_animated = None.
C2_StaleBuffersCleared ==
    (lastOp = "resize" /\ Downscale(dmi, lastReq)) => NoResizedBuffers(dmi)

\* the displayed size the policy prescribes for a request
ClampedHeight(oh, resizing) ==
    IF resizing.kind = "Resized" /\ resizing.height > oh
    THEN resizing.height ELSE oh

ClampedWidth(ow, resizing) ==
    IF resizing.kind = "Resized" /\ resizing.width > ow
    THEN resizing.width ELSE ow

\* C3: after parse_from_raw and after resize with request Resized{h, w},
\* displayed_height = h if h > original_height else original_height, and
\* displayed_width likewise; for Original the displayed size is the original
\* size; the effective request is Resized{clamped} unless both are clamped.
C3_DisplayedSizeClamped ==
    lastOp \in {"parse", "resize"} =>
        /\ dmi.displayed_height = ClampedHeight(raw.height, lastReq)
        /\ dmi.displayed_width = ClampedWidth(raw.width, lastReq)
        /\ dmi.original_height = raw.height
        /\ dmi.original_width = raw.width
        /\ LET effective ==
                   IF lastOp = "parse"
                   THEN ParsePolicy(raw.height, raw.width,
                                    lastReq).new_resizing
                   ELSE ResizePolicy(dmi, lastReq).new_resizing
           IN  IF Downscale(dmi, lastReq)
               THEN effective = Original
               ELSE effective = Resized(ClampedHeight(raw.height, lastReq),
                                        ClampedWidth(raw.width, lastReq))

\* Resized{3, 1} on a 2x2 original is displayed 3x2 (width clamped)
C3_Witness ==
    /\ lastOp = "parse"
    /\ raw.height = 2 /\ raw.width = 2
    /\ lastReq = Resized(3, 1)
    /\ dmi.displayed_height = 3 /\ dmi.displayed_width = 2

\* C4: for a request Resized{h, w} with h <= original_height and
\* w <= original_width, parse_from_raw builds exactly the aggregate it
\* builds for Original: displayed size = original size, no resized buffers.
C4_ParseDownscaleIsOriginal ==
    (lastOp = "parse" /\ lastReq.kind = "Resized"
        /\ lastReq.height <= raw.height /\ lastReq.width <= raw.width) =>
        /\ dmi = ParsedDMI_parse_from_raw(raw, Original, lastFilter)
        /\ dmi.displayed_height = raw.height
        /\ dmi.displayed_width = raw.width
        /\ NoResizedBuffers(dmi)

\* a 2x2 icon with frames parsed with Resized{2, 1}
C4_Witness ==
    /\ lastOp = "parse"
    /\ raw.height = 2 /\ raw.width = 2
    /\ lastReq = Resized(2, 1)
    /\ \E e \in Entries(dmi) : DirImageOf(dmi, e).original_frames # <<>>

\* the least integer not below a / b, for b > 0
CeilDiv(a, b) == -((-a) \div b)

\* the number of frames the bounds law gives direction ordinal d
LawCount(F, D, L, d) == Max(0, Min(F, CeilDiv(L - d, D)))

\* C5: for a state with frame count F, direction count D >= 1 and L images,
\* DirImage::parse_from_raw for the direction with ordinal d extracts exactly
\* max(0, min(F, ceil((L - d) / D))) original frames, and no extracted frame
\* comes from an index >= L.
C5_FrameCountLaw ==
    pc = "parsed" =>
        \A e \in Entries(dmi) :
            LET src == SourceOf(e[1])
                frames == DirImageOf(dmi, e).original_frames
            IN  /\ src.dirs >= 1
                /\ Len(frames)
                     = LawCount(src.frames, src.dirs, Len(src.images),
                                Discriminant(e[2]))
                /\ \A i \in 1..Len(frames) : frames[i].ix < Len(src.images)

\* a direction cut short by the image list, beside one that is not
C5_Witness ==
    /\ pc = "parsed"
    /\ \E e \in Entries(dmi) :
           /\ Len(DirImageOf(dmi, e).original_frames) >= 1
           /\ Len(DirImageOf(dmi, e).original_frames) < SourceOf(e[1]).frames
    /\ \E e \in Entries(dmi) :
           /\ SourceOf(e[1]).frames = 2
           /\ Len(DirImageOf(dmi, e).original_frames) = 2

\* C6: original_frames[f] of direction d is the image at flat index
\* d + f * D of the state's image list, for every f below the number of
\* frames extracted, in increasing f order.
C6_FrameAtFlatIndex ==
    pc = "parsed" =>
        \A e \in Entries(dmi) :
            LET src == SourceOf(e[1])
                frames == DirImageOf(dmi, e).original_frames
            IN  \A f \in 0..(Len(frames) - 1) :
                    /\ Discriminant(e[2]) + f * src.dirs < Len(src.images)
                    /\ frames[f + 1]
                         = src.images[Discriminant(e[2]) + f * src.dirs + 1]

\* the second frame of direction West of a 4-direction state is image 7
C6_Witness ==
    /\ pc = "parsed"
    /\ \E name \in DOMAIN dmi.states :
           /\ SourceOf(name).dirs = 4
           /\ "West" \in DOMAIN dmi.states[name].dirs
           /\ Len(dmi.states[name].dirs["West"].original_frames) = 2
           /\ dmi.states[name].dirs["West"].original_frames[2].ix = 7

\* the directions a state declares (an index above 7 is mapped to South)
DeclaredDirections(D) == { Directions_from_u8(i) : i \in 0..(D - 1) }

\* direction ordinal d has an image for each of the F declared frames
Complete(src, d) ==
    src.frames >= 1 /\ d + (src.frames - 1) * src.dirs < Len(src.images)

\* C7: truncation is scoped to one direction: every raw state name is in the
\* model, with an entry for every declared direction, and a direction whose
\* own images are all present has all its declared frames whatever happened
\* to the other directions and states (D=4, F=2, 6 images: directions 0 and
\* 1 get 2 frames, directions 2 and 3 get 1).
C7_TruncationScoped ==
    pc = "parsed" =>
        /\ \A i \in 1..Len(raw.states) : raw.states[i].name \in DOMAIN dmi.states
        /\ \A name \in DOMAIN dmi.states :
               LET src == SourceOf(name)
                   dirs == dmi.states[name].dirs
               IN  /\ DOMAIN dirs = DeclaredDirections(src.dirs)
                   /\ \A dir \in DOMAIN dirs :
                          Complete(src, Discriminant(dir)) =>
                              Len(dirs[dir].original_frames) = src.frames
                   /\ (src.dirs = 4 /\ src.frames = 2 /\ Len(src.images) = 6) =>
                          /\ Len(dirs["South"].original_frames) = 2
                          /\ Len(dirs["North"].original_frames) = 2
                          /\ Len(dirs["East"].original_frames) = 1
                          /\ Len(dirs["West"].original_frames) = 1

\* a truncated state (D=4, F=2, 6 images) beside a complete one
C7_Witness ==
    /\ pc = "parsed"
    /\ \E n1 \in DOMAIN dmi.states, n2 \in DOMAIN dmi.states :
           /\ n1 # n2
           /\ SourceOf(n1).dirs = 4 /\ SourceOf(n1).frames = 2
           /\ Len(SourceOf(n1).images) = 6
           /\ Len(dmi.states[n1].dirs["West"].original_frames) = 1
           /\ Len(SourceOf(n2).images) = 8
           /\ \A dir \in DOMAIN dmi.states[n2].dirs :
                  Len(dmi.states[n2].dirs[dir].original_frames) = 2

\* C8: for a state declaring D directions (D in {1, 4, 8}), dirs has exactly
\* D entries, keyed by the directions with ordinals 0..D-1; after
\* parse_from_raw a direction with zero frames is still an entry and is the
\* empty default, also when the parse request is Resized.
C8_EmptyDirectionIsDefault ==
    pc = "parsed" =>
        \A name \in DOMAIN dmi.states :
            LET src == SourceOf(name)
                dirs == dmi.states[name].dirs
            IN  src.dirs \in {1, 4, 8} =>
                    /\ Cardinality(DOMAIN dirs) = src.dirs
                    /\ DOMAIN dirs
                         = { dir \in Directions : Discriminant(dir) < src.dirs }
                    /\ lastOp = "parse" =>
                           \A dir \in DOMAIN dirs :
                               dirs[dir].original_frames = <<>> =>
                                   /\ dirs[dir].resized_frames = None
                                   /\ dirs[dir].resized_animated = None
                                   /\ dirs[dir].original_animated = None

\* parsed with an effective Resized request: one direction was resized, an
\* other has no frame
C8_Witness ==
    /\ lastOp = "parse"
    /\ lastReq.kind = "Resized" /\ ~Downscale(dmi, lastReq)
    /\ \E name \in DOMAIN dmi.states :
           /\ SourceOf(name).dirs = 4
           /\ \E d1 \in DOMAIN dmi.states[name].dirs :
                  dmi.states[name].dirs[d1].resized_frames.some
           /\ \E d2 \in DOMAIN dmi.states[name].dirs :
                  dmi.states[name].dirs[d2].original_frames = <<>>

\* the animated views (original and resized) an aggregate holds, each with
\* the state it belongs to
AnimatedViews(d) ==
    { <<e[1], DirImageOf(d, e).original_animated.val>> :
          e \in { x \in Entries(d) : DirImageOf(d, x).original_animated.some } }
    \cup
    { <<e[1], DirImageOf(d, e).resized_animated.val>> :
          e \in { x \in Entries(d) : DirImageOf(d, x).resized_animated.some } }

\* ms is round(ticks * 100) for a delay of `thousandths` thousandths of a tick
IsRoundedMs(ms, thousandths) ==
    10 * ms - 5 <= thousandths /\ thousandths < 10 * ms + 5

\* C9: animate gives frame i a duration of round(delay[i] * 100) ms when the
\* delay sequence has an entry at index i and exactly 100 ms otherwise; three
\* frames without delay give [100, 100, 100], delay [2.0, 0.5] gives
\* [200, 50, 100]; a missing entry never gives a zero-duration frame.
C9_FrameDurations ==
    \A v \in AnimatedViews(dmi) :
        LET delay == SourceOf(v[1]).delay
            durations == v[2][2]
        IN  /\ Len(durations) = Len(v[2][3])
            /\ \A i \in 1..Len(durations) :
                   IF delay.some /\ i <= Len(delay.val)
                   THEN IsRoundedMs(durations[i], delay.val[i])
                   ELSE durations[i] = 100
            /\ (~delay.some /\ Len(durations) = 3) =>
                   durations = <<100, 100, 100>>
            /\ (delay = Some(<<2000, 500>>) /\ Len(durations) = 3) =>
                   durations = <<200, 50, 100>>

\* three frames animated with delay [2.0, 0.5]
C9_Witness ==
    \E v \in AnimatedViews(dmi) :
        /\ SourceOf(v[1]).delay = Some(<<2000, 500>>)
        /\ v[2][2] = <<200, 50, 100>>

\* C10 (as claimed): Indefinitely gives infinite repeat, and NTimes(n) gives
\* a finite repeat count equal to n for every non-zero 32-bit n.
C10_RepeatEqualsLoopCount ==
    \A v \in AnimatedViews(dmi) :
        LET loop_flag == SourceOf(v[1]).loop_flag
            repeat == v[2][1]
        IN  IF loop_flag.kind = "Indefinitely"
            THEN repeat.kind = "Infinite"
            ELSE repeat.kind = "Finite" /\ repeat.count = loop_flag.num

\* C11 (as claimed): whenever a resize is performed with effective request
\* Resized{h, w}, every frame of every resized_frames has exactly width w
\* and height h.
C11_ResizedFramesExact ==
    (lastOp \in {"parse", "resize"} /\ ~Downscale(dmi, lastReq)) =>
        \A e \in Entries(dmi) :
            LET resized == DirImageOf(dmi, e).resized_frames
            IN  resized.some =>
                    \A i \in 1..Len(resized.val) :
                        /\ resized.val[i].width
                             = ClampedWidth(raw.width, lastReq)
                        /\ resized.val[i].height
                             = ClampedHeight(raw.height, lastReq)

\* C12 (as claimed): in every state reached by parse_from_raw followed by
\* resize calls, every frame returned by get_frame has width ==
\* displayed_width and height == displayed_height.
C12_OneDisplayedSize ==
    pc = "parsed" =>
        \A e \in Entries(dmi) : \A i \in 0..(MaxFrames + MaxAnimFrames) :
            LET got == DirImage_get_frame(DirImageOf(dmi, e), i)
            IN  got.some =>
                    /\ got.val.width = dmi.displayed_width
                    /\ got.val.height = dmi.displayed_height

\* animation synthesis meets a failure: the encoder rejects the repeat
\* setting, or rejects a frame
SynthesisFails(frames) == repeat_rejected \/ ~EncodeOk(frames)

\* C13 (as claimed): if animation synthesis fails for a direction, including
\* when the encoder rejects the repeat setting, animate reports failure and
\* the animated view of that pass is None, while the frames stay available
\* through get_original_frame / get_frame.
C13_FailedSynthesisYieldsNone ==
    pc = "parsed" =>
        \A e \in Entries(dmi) :
            LET this == DirImageOf(dmi, e)
                source == SourceOf(e[1])
                resized == this.resized_frames
            IN  /\ (this.original_frames # <<>>
                      /\ SynthesisFails(this.original_frames)) =>
                        /\ ~animate(this.original_frames, source.loop_flag,
                                    source.delay).ok
                        /\ this.original_animated = None
                        /\ DirImage_get_original_frame(this, 0).some
                /\ (resized.some /\ resized.val # <<>>
                      /\ SynthesisFails(resized.val)) =>
                        /\ ~animate(resized.val, source.loop_flag,
                                    source.delay).ok
                        /\ this.resized_animated = None
                        /\ DirImage_get_frame(this, 0).some

\* C14 (as claimed): parse_from_raw(raw, r, f) yields the same aggregate as
\* parse_from_raw(raw, Original, f) followed by resize(r, f), directions
\* that hold no frame included.
C14_ParseIsParseOriginalThenResize ==
    lastOp = "parse" =>
        dmi = ParsedDMI_resize(
                  ParsedDMI_parse_from_raw(raw, Original, lastFilter),
                  lastReq, lastFilter)

\* C15 (as claimed): a resize with Resized{h, w} and a filter, applied a
\* second time, changes nothing; and the result of resize(r) does not depend
\* on the Resized requests made before it: it is what resize(r) gives on the
\* freshly parsed aggregate.
C15_ResizeIdempotentAndHistoryFree ==
    [][(lastOp' = "resize" /\ lastReq'.kind = "Resized") =>
          /\ ParsedDMI_resize(dmi', lastReq', lastFilter') = dmi'
          /\ dmi' = ParsedDMI_resize(
                        ParsedDMI_parse_from_raw(raw, Original, lastFilter'),
                        lastReq', lastFilter')]_vars

\* C16: the resize policy is idempotent on its own output.  After a resize
\* (or a parse) with any request, the policy applied to the request gives
\* the displayed size of the aggregate, and the policy applied again to the
\* effective request it produced gives the same effective request and the
\* same displayed height and width.
C16_PolicyIdempotent ==
    /\ lastOp = "resize" =>
           LET first == ResizePolicy(dmi, lastReq)
               second == ResizePolicy(dmi, first.new_resizing)
           IN  /\ dmi.displayed_height = first.displayed_height
               /\ dmi.displayed_width = first.displayed_width
               /\ second.new_resizing = first.new_resizing
               /\ second.displayed_height = first.displayed_height
               /\ second.displayed_width = first.displayed_width
    /\ lastOp = "parse" =>
           LET first == ParsePolicy(raw.height, raw.width, lastReq)
               second == ParsePolicy(raw.height, raw.width,
                                     first.new_resizing)
           IN  /\ dmi.displayed_height = first.displayed_height
               /\ dmi.displayed_width = first.displayed_width
               /\ second = first

\* a resize whose request was clamped in one dimension: 3 high x 1 wide on a
\* 2x2 icon is displayed 3 high x 2 wide
C16_Witness ==
    /\ lastOp = "resize"
    /\ lastReq = Resized(3, 1)
    /\ raw.height = 2 /\ raw.width = 2
    /\ dmi.displayed_height = 3 /\ dmi.displayed_width = 2
    /\ ResizePolicy(dmi, lastReq).new_resizing = Resized(3, 2)

\* the ordering of two numbers
OrdinalOrder(a, b) ==
    IF a < b THEN "Less" ELSE IF a = b THEN "Equal" ELSE "Greater"

\* C17: for every d in 0..8 (8 excluded), Directions::from(d) converted back
\* with u8::from yields d; the eight values are ordered by their ordinal,
\* South=0 < North=1 < East=2 < West=3 < SouthEast=4 < SouthWest=5 <
\* NorthEast=6 < NorthWest=7; and the keys of a parsed state, converted
\* back, are the direction indexes the parse loop converted.
C17_DirectionRoundTrip ==
    /\ \A d \in 0..7 : u8_from_Directions(Directions_from_u8(d)) = d
    /\ \A a \in 0..7 : \A b \in 0..7 :
           Directions_cmp(Directions_from_u8(a), Directions_from_u8(b))
               = OrdinalOrder(a, b)
    /\ <<Directions_from_u8(0), Directions_from_u8(1), Directions_from_u8(2),
          Directions_from_u8(3), Directions_from_u8(4), Directions_from_u8(5),
          Directions_from_u8(6), Directions_from_u8(7)>>
           = <<"South", "North", "East", "West", "SouthEast", "SouthWest",
               "NorthEast", "NorthWest">>
    /\ pc = "parsed" =>
           \A name \in DOMAIN dmi.states :
               { u8_from_Directions(k) : k \in DOMAIN dmi.states[name].dirs }
                   = 0..(Min(SourceOf(name).dirs, 8) - 1)

\* a parsed state that declares the eight directions and holds all of them
C17_Witness ==
    /\ pc = "parsed"
    /\ \E name \in DOMAIN dmi.states :
           /\ SourceOf(name).dirs = 8
           /\ DOMAIN dmi.states[name].dirs = Directions
           /\ \A k \in Directions :
                  dmi.states[name].dirs[k].original_frames # <<>>

\* the position in the raw icon of the last state called name
LastIndexOf(name) ==
    CHOOSE i \in 1..Len(raw.states) :
        /\ raw.states[i].name = name
        /\ \A j \in (i + 1)..Len(raw.states) : raw.states[j].name # name

\* C18: when several raw states share a name, parse_from_raw keeps exactly
\* one entry for the name, built from the last such state in source order;
\* the number of entries equals the number of distinct state names.
C18_LastStateOfANameWins ==
    pc = "parsed" =>
        LET names == { raw.states[i].name : i \in 1..Len(raw.states) }
            effective == ParsePolicy(raw.height, raw.width,
                                     lastReq).new_resizing
        IN  /\ DOMAIN dmi.states = names
            /\ Cardinality(DOMAIN dmi.states) = Cardinality(names)
            /\ \A name \in names :
                   LET last == LastIndexOf(name)
                       entry == dmi.states[name]
                   IN  /\ entry = ParsedState_parse_from_raw(
                                      raw.states[last], effective, lastFilter)
                       /\ entry.frames = raw.states[last].frames
                       /\ \A dir \in DOMAIN entry.dirs :
                              \A i \in 1..Len(entry.dirs[dir].original_frames) :
                                  entry.dirs[dir].original_frames[i].st = last

\* two states of one name and of different shapes, parsed into one entry
\* that holds the frames of the second
C18_Witness ==
    /\ pc = "parsed"
    /\ Len(raw.states) = 2
    /\ raw.states[1].name = raw.states[2].name
    /\ Len(raw.states[1].images) # Len(raw.states[2].images)
    /\ Cardinality(DOMAIN dmi.states) = 1
    /\ \E dir \in DOMAIN dmi.states[raw.states[2].name].dirs :
           LET frames == dmi.states[raw.states[2].name].dirs[dir].original_frames
           IN  frames # <<>> /\ frames[1].st = 2

\* C19: get_frame(dir, i) returns resized_frames[i] when the direction's
\* resized_frames is present and original_frames[i] when it is None;
\* get_animated returns resized_animated when present and original_animated
\* otherwise; get_original_frame and get_original_animated return the
\* original; each accessor returns None when the direction is not populated
\* or i is not below the frame count.
C19_AccessorsSelectBuffers ==
    pc = "parsed" =>
        \A name \in DOMAIN dmi.states : \A dir \in Directions :
            LET state == dmi.states[name]
            IN  IF dir \notin DOMAIN state.dirs
                THEN /\ ParsedState_get_animated(state, dir) = None
                     /\ ParsedState_get_original_animated(state, dir) = None
                     /\ \A i \in 0..(MaxFrames + 1) :
                            /\ ParsedState_get_frame(state, dir, i) = None
                            /\ ParsedState_get_original_frame(state, dir, i)
                                   = None
                ELSE LET this == state.dirs[dir]
                         shown == IF this.resized_frames.some
                                  THEN this.resized_frames.val
                                  ELSE this.original_frames
                     IN  /\ ParsedState_get_animated(state, dir)
                                = IF this.resized_animated.some
                                  THEN this.resized_animated
                                  ELSE this.original_animated
                         /\ ParsedState_get_original_animated(state, dir)
                                = this.original_animated
                         /\ \A i \in 0..(MaxFrames + 1) :
                                /\ ParsedState_get_frame(state, dir, i)
                                       = IF i < Len(shown)
                                         THEN Some(shown[i + 1])
                                         ELSE None
                                /\ ParsedState_get_original_frame(state, dir, i)
                                       = IF i < Len(this.original_frames)
                                         THEN Some(this.original_frames[i + 1])
                                         ELSE None

\* after an effective resize one state has a direction whose get_frame is
\* the resized frame and not the original, a populated direction without
\* frames, and a direction that is not populated
C19_Witness ==
    /\ lastOp = "resize"
    /\ \E name \in DOMAIN dmi.states :
           LET state == dmi.states[name]
           IN  /\ \E dir \in DOMAIN state.dirs :
                      /\ state.dirs[dir].resized_frames.some
                      /\ ParsedState_get_frame(state, dir, 0).some
                      /\ ParsedState_get_frame(state, dir, 0)
                             # ParsedState_get_original_frame(state, dir, 0)
                      /\ ParsedState_get_frame(state, dir, MaxFrames) = None
               /\ \E dir \in DOMAIN state.dirs :
                      state.dirs[dir].original_frames = <<>>
               /\ \E dir \in Directions :
                      /\ dir \notin DOMAIN state.dirs
                      /\ ParsedState_get_frame(state, dir, 0) = None

\* C20: a load_dmi that fails yields an error value, which the background
\* load delivers as DMILoaded(Err); handling DMILoaded(Err) leaves parsed_dmi
\* and dmi_raw_icon as they were and sets loading_dmi_in_progress to false.
C20_FailedLoadKeepsAggregate ==
    /\ [](\A task \in inflight :
             /\ task.ok = load_dmi(task.path).ok
             /\ ~task.ok => task.err \in {"DmiError", "IoError"})
    /\ [][\A task \in inflight :
              (~load_dmi(task.path).ok /\ inflight' = inflight \ {task}) =>
                  /\ dmi' = dmi
                  /\ raw' = raw
                  /\ loading_dmi_in_progress' = FALSE]_vars

\* a failed load delivered to a screen that shows a file loaded before
C20_Witness ==
    /\ lastOp = "DMILoaded(Err)"
    /\ raw # Icon_default
    /\ DOMAIN dmi.states # {}
    /\ ~loading_dmi_in_progress

\* C22: after ParsedDMI::resize with an effective request Resized{h, w},
\* every DirImage of every state has resized_frames = Some(s) where s is as
\* long as its original_frames and every element of s is the original frame
\* resized with that same (h, w), whatever the aggregate held before.
C22_ResizeCoversEveryDirection ==
    (lastOp = "resize" /\ ~Downscale(dmi, lastReq)) =>
        \A e \in Entries(dmi) :
            LET this == DirImageOf(dmi, e)
                h == ClampedHeight(dmi.original_height, lastReq)
                w == ClampedWidth(dmi.original_width, lastReq)
            IN  /\ this.resized_frames.some
                /\ Len(this.resized_frames.val) = Len(this.original_frames)
                /\ \A i \in 1..Len(this.original_frames) :
                       this.resized_frames.val[i]
                           = DynamicImage_resize(this.original_frames[i],
                                                 w, h, lastFilter)

\* an effective resize of an aggregate with two states, one of which holds
\* directions with and without frames
C22_Witness ==
    /\ lastOp = "resize"
    /\ ~Downscale(dmi, lastReq)
    /\ Cardinality(DOMAIN dmi.states) = 2
    /\ \E e \in Entries(dmi) :
           /\ e[2] # "South"
           /\ DirImageOf(dmi, e).original_frames # <<>>
           /\ DirImageOf(dmi, e).resized_frames.some
    /\ \E e \in Entries(dmi) :
           /\ DirImageOf(dmi, e).original_frames = <<>>
           /\ DirImageOf(dmi, e).resized_frames = Some(<<>>)

\* C29: Directions::from(u8) is total and maps every value >= 8 to South; a
\* state declaring D directions is parsed into exactly min(D, 8) entries (8
\* when D > 8), and its South entry is the DirImage built for index 0.
C29_DirectionsTotal ==
    /\ \A value \in 0..255 :
           /\ Directions_from_u8(value) \in Directions
           /\ value >= 8 => Directions_from_u8(value) = "South"
    /\ pc = "parsed" =>
           \A name \in DOMAIN dmi.states :
               LET source == SourceOf(name)
                   entry == dmi.states[name]
                   effective == ParsePolicy(raw.height, raw.width,
                                            lastReq).new_resizing
               IN  /\ Cardinality(DOMAIN entry.dirs) = Min(source.dirs, 8)
                   /\ source.dirs > 8 => DOMAIN entry.dirs = Directions
                   /\ source.dirs >= 1 =>
                          entry.dirs["South"]
                              = DirImage_parse_from_raw(
                                    source, effective, Directions_from_u8(0),
                                    source.frames, source.loop_flag,
                                    lastFilter)

\* a state that declares nine directions, parsed into eight entries with
\* frames in the South one
C29_Witness ==
    /\ pc = "parsed"
    /\ \E name \in DOMAIN dmi.states :
           /\ SourceOf(name).dirs = 9
           /\ Cardinality(DOMAIN dmi.states[name].dirs) = 8
           /\ dmi.states[name].dirs["South"].original_frames # <<>>
           /\ dmi.states[name].dirs["NorthWest"].original_frames # <<>>

\* C23 (as claimed): the viewer serializes resize against loading: a
\* PerformResize is never applied to parsed_dmi while a load started by
\* LoadDMI is still in progress, the loading_dmi_in_progress flag being true
\* for as long as it is, so that no load completing afterwards discards the
\* result of the resize.
C23_ResizeNeverDuringLoad ==
    [][PerformResize =>
          /\ ~loading_dmi_in_progress
          /\ inflight = {}]_vars

\* C24 (as claimed): loading_dmi_in_progress is true in every state where a
\* background load started by LoadDMI has not yet delivered its DMILoaded
\* message, also when a second LoadDMI was issued before the first
\* completed.
C24_LoadingFlagCoversLoads ==
    inflight # {} => loading_dmi_in_progress

\* C25 (as claimed): when several LoadDMI requests were started and their
\* DMILoaded messages arrive in any order, then at the moment the last of
\* them is delivered, all having succeeded, parsed_dmi and dmi_raw_icon hold
\* the result of the most recently started request.
C25_LastRequestWins ==
    [][(/\ inflight # {}
        /\ inflight' = {}
        /\ pending_load' = 0
        /\ Len(issued) >= 2
        /\ \A i \in 1..Len(issued) : issued[i].ok) =>
          /\ dmi' = issued[Len(issued)].parsed
          /\ raw' = issued[Len(issued)].raw]_vars

\* C21 (as claimed): when a CopyImage export fails, the destination file in
\* the cache directory is not left created, truncated or partially written:
\* after the step every file either holds complete exported bytes or is as
\* it was before.
C21_FailedExportLeavesFile ==
    [][(pending_copy.some /\ ~pending_copy'.some) =>
          \A name \in Names :
              \/ cache_files'[name] = cache_files[name]
              \/ /\ cache_files'[name].some
                 /\ cache_files'[name].val.written = "all"]_vars

\* C28 (as claimed): the image a successful CopyImage exports is the variant
\* shown by the statebox button that was pressed: the resized one when
\* show_resized is on, the original one when it is off.
C28_ExportsWhatIsShown ==
    [][(pending_copy.some /\ lastOp' = "CopyImage(Ok)"
        /\ cache_files' # cache_files) =>
          cache_files'[pending_copy.val.state_name]
              = Some(WholeFile(pending_copy.val.shown))]_vars

\* C26 (as claimed): a DMILoaded inserts into parsed_dmis only when it is
\* successful and its path is still in loading_dmis; a failed one never
\* inserts; the result of a load that was in flight at a ClearAll is
\* discarded and does not reappear in parsed_dmis.
C26_ClearedLoadsStayOut ==
    [][\A task \in ex_inflight :
          (ex_inflight' = ex_inflight \ {task}) =>
              parsed_dmis' = IF task.ok /\ task.path \in loading_dmis
                                /\ ~task.cleared
                             THEN BTreeMap_insert(parsed_dmis, task.path,
                                                  task.states)
                             ELSE parsed_dmis]_vars

\* C27: a path in loading_dmis is eventually out of it once its load has
\* delivered its DMILoaded, also when the same path is loaded twice; when no
\* load is pending loading_dmis is empty.
C27_LoadingSetDrains ==
    /\ [](ex_inflight = {} => loading_dmis = {})
    /\ [](loading_dmis \subseteq { task.path : task \in ex_inflight })
    /\ \A path \in ExplorerPaths :
           (path \in loading_dmis) ~> (path \notin loading_dmis)
    /\ (ex_inflight # {}) ~> (ex_inflight = {} /\ loading_dmis = {})

\* one path loaded twice: its first DMILoaded has taken it out of
\* loading_dmis while the second load is still pending
C27_Witness ==
    \E task \in ex_inflight :
        /\ ~task.cleared
        /\ task.path \notin loading_dmis
        /\ lastOp \in {"DMILoaded(Ok)", "DMILoaded(Err)"}

\* C30 (as claimed): prepare_dirs and cleanup never hand an unsafe cache
\* directory to remove_dir_all: one that ends with "/home" or is shorter
\* than 5 characters (such as "/" or ""), whatever log_dir is.
C30_UnsafeCacheDirKept ==
    \A i \in 1..Len(removed) :
        /\ ~Path_ends_with(removed[i], HomeDir)
        /\ Len(removed[i]) >= 5

====
